---- MODULE Spec2Model ----
(***************************************************************************)
(* A model of the resume analysis pipeline of Resume-Bot:                  *)
(*   src/src/services/resume_analyzer.py  (ResumeAnalyzer)                 *)
(*   src/app.py                           (validate_inputs,                *)
(*                                         process_resume_analysis,        *)
(*                                         display_results, main)          *)
(*   src/src/components/ui_components.py  (display_* helpers)              *)
(*                                                                         *)
(* Text is a sequence of one-character strings.  A Python call is modelled *)
(* by its outcome: a record [raised, value] that either carries the value  *)
(* returned or the message of the exception raised.                        *)
(***************************************************************************)
EXTENDS Integers, Sequences, FiniteSets, TLC

(***************************************************************************)
(* Bounds of the model.                                                    *)
(***************************************************************************)
\* Longest text, in words of Vocabulary, given to extract_keywords.
MaxWords == 3

\* Largest top_n given to extract_keywords.
MaxTopN == 3

(***************************************************************************)
(* Outcomes of a call.                                                     *)
(***************************************************************************)
Return(v) == [raised |-> FALSE, value |-> v]

Raise(msg) == [raised |-> TRUE, value |-> msg]

\* try: body, except Exception: return fallback.  body is the outcome of
\* the try block.
ExceptReturn(body, fallback) == IF body.raised THEN Return(fallback) ELSE body

(***************************************************************************)
(* Characters.                                                             *)
(***************************************************************************)
UpperLetters == <<"A","B","C","D","E","F","G","H","I","J","K","L","M",
                  "N","O","P","Q","R","S","T","U","V","W","X","Y","Z">>

LowerLetters == <<"a","b","c","d","e","f","g","h","i","j","k","l","m",
                  "n","o","p","q","r","s","t","u","v","w","x","y","z">>

Digits == {"0","1","2","3","4","5","6","7","8","9"}

Range(s) == {s[i] : i \in DOMAIN s}

\* str.lower() on one character.
LowerOf == [c \in Range(UpperLetters) |->
               LowerLetters[CHOOSE i \in DOMAIN UpperLetters : UpperLetters[i] = c]]

LowerChar(c) == IF c \in DOMAIN LowerOf THEN LowerOf[c] ELSE c

\* str.lower()
Lower(text) == [i \in DOMAIN text |-> LowerChar(text[i])]

\* The regular expression class \w: letters, digits and the underscore.
WordChars == Range(UpperLetters) \cup Range(LowerLetters) \cup Digits \cup {"_"}

IsWordChar(c) == c \in WordChars

\* The regular expression class \s.
SpaceChars == {" ", "\n", "\t"}

IsSpaceChar(c) == c \in SpaceChars

\* re.sub(r'[^\w\s]', ' ', text)
SubNonWord(text) ==
    [i \in DOMAIN text |-> IF IsWordChar(text[i]) \/ IsSpaceChar(text[i])
                           THEN text[i] ELSE " "]

CleanTextNoLower(text) == SubNonWord(text)

\* The cleaning step of extract_keywords: lower-case, then substitute.
CleanText(text) == SubNonWord(Lower(text))

(***************************************************************************)
(* Tokenizers.                                                             *)
(***************************************************************************)
RECURSIVE SplitFrom(_, _, _)
\* str.split(): the maximal runs of non-whitespace characters, in order.
\* cur is the run being read, i the next position.
SplitFrom(text, i, cur) ==
    IF i > Len(text)
    THEN IF cur = <<>> THEN <<>> ELSE <<cur>>
    ELSE IF IsSpaceChar(text[i])
         THEN (IF cur = <<>> THEN <<>> ELSE <<cur>>) \o SplitFrom(text, i + 1, <<>>)
         ELSE SplitFrom(text, i + 1, Append(cur, text[i]))

SimpleSplit(text) == SplitFrom(text, 1, <<>>)

\* The contractions the Treebank tokenizer of nltk splits in two, among
\* those written without an apostrophe (the cleaned text has none):
\* cannot, gimme, gonna, gotta, lemme, wanna.
Contractions ==
    { <<"c","a","n","n","o","t">>, <<"g","i","m","m","e">>,
      <<"g","o","n","n","a">>, <<"g","o","t","t","a">>,
      <<"l","e","m","m","e">>, <<"w","a","n","n","a">> }

\* Every contraction splits after its third character.
SplitContraction(tok) ==
    IF tok \in Contractions
    THEN << SubSeq(tok, 1, 3), SubSeq(tok, 4, Len(tok)) >>
    ELSE << tok >>

RECURSIVE FlattenSeq(_)
FlattenSeq(ss) == IF ss = <<>> THEN <<>> ELSE Head(ss) \o FlattenSeq(Tail(ss))

\* nltk.word_tokenize on text holding only word characters and whitespace:
\* the whitespace-separated words, contractions split in two.
WordTokenize(text) ==
    LET words == SimpleSplit(text)
    IN  FlattenSeq([i \in DOMAIN words |-> SplitContraction(words[i])])

(***************************************************************************)
(* Stop words: some of the words of nltk's English list.                   *)
(***************************************************************************)
StopWords ==
    { <<"t","h","e">>, <<"a","n","d">>, <<"c","a","n">>, <<"n","o","t">>,
      <<"f","o","r">>, <<"m","e">> }

\* The shortest keyword kept is one character longer than this.
ShortWordLen == 2

(***************************************************************************)
(* collections.Counter and Counter.most_common.                            *)
(***************************************************************************)
RECURSIVE SelectSeqBy(_, _)
\* A list comprehension with a condition: the elements of s in keep, in order.
SelectSeqBy(s, keep) ==
    IF s = <<>> THEN <<>>
    ELSE (IF Head(s) \in keep THEN <<Head(s)>> ELSE <<>>) \o SelectSeqBy(Tail(s), keep)

CountOf(s, w) == Cardinality({i \in DOMAIN s : s[i] = w})

RECURSIVE CounterKeys(_, _)
\* The keys of Counter(s) in insertion order: each word where it first occurs.
CounterKeys(s, seen) ==
    IF s = <<>> THEN <<>>
    ELSE IF Head(s) \in seen
         THEN CounterKeys(Tail(s), seen)
         ELSE <<Head(s)>> \o CounterKeys(Tail(s), seen \cup {Head(s)})

\* Counter(s).items(): (word, count) pairs in insertion order.
CounterItems(s) ==
    LET keys == CounterKeys(s, {})
    IN  [i \in DOMAIN keys |-> [word |-> keys[i], count |-> CountOf(s, keys[i])]]

\* Where a stable descending sort puts item: behind every item already
\* placed whose count is at least as large.
InsertDescUnstable(sorted, item) ==
    LET before == {i \in DOMAIN sorted : sorted[i].count > item.count}
        k == Cardinality(before)
    IN  SubSeq(sorted, 1, k) \o <<item>> \o SubSeq(sorted, k + 1, Len(sorted))

InsertDesc(sorted, item) ==
    LET before == {i \in DOMAIN sorted : sorted[i].count >= item.count}
        k == Cardinality(before)
    IN  SubSeq(sorted, 1, k) \o <<item>> \o SubSeq(sorted, k + 1, Len(sorted))

RECURSIVE SortDescFrom(_, _)
SortDescFrom(items, sorted) ==
    IF items = <<>> THEN sorted
    ELSE SortDescFrom(Tail(items), InsertDesc(sorted, Head(items)))

\* sorted(items, key=count, reverse=True): stable.
SortDesc(items) == SortDescFrom(items, <<>>)

\* Counter.most_common(n) = heapq.nlargest(n, items, key=count), which is
\* sorted(items, key=count, reverse=True)[:n]; empty when n <= 0.
MostCommon(items, n) ==
    LET sorted == SortDesc(items)
        m == IF n < 0 THEN 0 ELSE IF n > Len(sorted) THEN Len(sorted) ELSE n
    IN  SubSeq(sorted, 1, m)

(***************************************************************************)
(* ResumeAnalyzer.extract_keywords                                         *)
(***************************************************************************)
\* A Python argument that should be a string: isStr tells whether it is.
StrArg(chars) == [isStr |-> TRUE, chars |-> chars]

NotAStr == [isStr |-> FALSE, chars |-> <<>>]

\* The tokens: word_tokenize, or the plain split when word_tokenize raises.
Tokenize(text, punktOk) ==
    IF punktOk THEN WordTokenize(text) ELSE SimpleSplit(text)

KeptWordsKeepShort(tokens) ==
    SelectSeqBy(tokens, {w \in Range(tokens) : w \notin StopWords})

\* The words kept: not a stop word, longer than two characters.
KeptWords(tokens) ==
    SelectSeqBy(tokens, {w \in Range(tokens) : w \notin StopWords /\ Len(w) > ShortWordLen})

\* The body of the outer try block.
ExtractKeywordsBody(arg, top_n, punktOk) ==
    IF ~arg.isStr
    THEN Raise("'NoneType' object has no attribute 'lower'")
    ELSE LET text     == CleanText(arg.chars)
             tokens   == Tokenize(text, punktOk)
             keywords == KeptWords(tokens)
             common   == MostCommon(CounterItems(keywords), top_n)
         IN  Return([i \in DOMAIN common |-> common[i].word])

ExtractKeywordsNoCatch(arg, top_n, punktOk) == ExtractKeywordsBody(arg, top_n, punktOk)

\* extract_keywords: the outer except turns any exception into [].
extract_keywords(arg, top_n, punktOk) ==
    ExceptReturn(ExtractKeywordsBody(arg, top_n, punktOk), <<>>)

(***************************************************************************)
(* Input texts: words of a small vocabulary joined by single spaces.       *)
(***************************************************************************)
Vocabulary ==
    { <<"a","w","s">>,                 \* aws
      <<"S","Q","L">>,                 \* SQL
      <<"T","h","e">>,                 \* The    (a stop word)
      <<"g","o">>,                     \* go     (too short)
      <<"d","b","_","2">>,             \* db_2
      <<"n","o","d","e",".","j","s">>, \* node.js
      <<"c","a","n","n","o","t">> }    \* cannot (a contraction)

RECURSIVE JoinWords(_)
\* " ".join(words)
JoinWords(words) ==
    IF words = <<>> THEN <<>>
    ELSE IF Len(words) = 1 THEN Head(words)
         ELSE Head(words) \o <<" ">> \o JoinWords(Tail(words))

WordLists(n) == UNION {[1..k -> Vocabulary] : k \in 0..n}

TextsUpTo(n) == {JoinWords(ws) : ws \in WordLists(n)}

(***************************************************************************)
(* Python values that come from outside the program (parsed JSON): each    *)
(* carries its dynamic type.  A dict is a function from its keys.          *)
(***************************************************************************)
PyNone == [t |-> "none", v |-> 0]

PyInt(n) == [t |-> "int", v |-> n]

PyStr(s) == [t |-> "str", v |-> s]

PyList(s) == [t |-> "list", v |-> s]

PyDict(f) == [t |-> "dict", v |-> f]

\* {}
EmptyDict == PyDict(<<>>)

\* d.get(key, default) on a dict.
DictGet(d, key, default) == IF key \in DOMAIN d.v THEN d.v[key] ELSE default

\* bool(value)
Truthy(x) ==
    CASE x.t = "none" -> FALSE
      [] x.t = "int"  -> x.v # 0
      [] x.t = "str"  -> x.v # ""
      [] x.t = "list" -> x.v # <<>>
      [] x.t = "dict" -> DOMAIN x.v # {}

(***************************************************************************)
(* Replies of the language model, and json.loads on them.                  *)
(***************************************************************************)
ReplyNotJson == "not json"

ReplyList == "[]"

ReplyNull == "null"

ReplyFull == "{\"overall_match_score\": 85, \"strengths\": [\"Python\"], \"weaknesses\": [], \"missing_keywords\": [\"docker\"], \"recommendations\": [\"Add Docker\"], \"skill_matches\": {\"technical_skills\": [\"Python\"], \"soft_skills\": [], \"missing_skills\": [\"Docker\"]}, \"experience_analysis\": {\"relevant_experience\": \"3 years\", \"experience_gaps\": \"none\", \"years_match\": \"yes\"}}"

ReplyOver == "{\"overall_match_score\": 150, \"strengths\": []}"

ReplyUnder == "{\"overall_match_score\": -5}"

ReplySuggestions == "{\"immediate_improvements\": [{\"section\": \"Skills\", \"current_issue\": \"no Docker\", \"suggested_change\": \"add Docker\"}], \"keyword_optimization\": [], \"formatting_suggestions\": [\"Use bullets\"], \"content_enhancements\": []}"

ReplyFullValue ==
    PyDict([ overall_match_score |-> PyInt(85),
             strengths           |-> PyList(<<PyStr("Python")>>),
             weaknesses          |-> PyList(<<>>),
             missing_keywords    |-> PyList(<<PyStr("docker")>>),
             recommendations     |-> PyList(<<PyStr("Add Docker")>>),
             skill_matches       |->
                 PyDict([ technical_skills |-> PyList(<<PyStr("Python")>>),
                          soft_skills      |-> PyList(<<>>),
                          missing_skills   |-> PyList(<<PyStr("Docker")>>) ]),
             experience_analysis |->
                 PyDict([ relevant_experience |-> PyStr("3 years"),
                          experience_gaps     |-> PyStr("none"),
                          years_match         |-> PyStr("yes") ]) ])

ReplySuggestionsValue ==
    PyDict([ immediate_improvements |->
                 PyList(<< PyDict([ section          |-> PyStr("Skills"),
                                    current_issue    |-> PyStr("no Docker"),
                                    suggested_change |-> PyStr("add Docker") ]) >>),
             keyword_optimization   |-> PyList(<<>>),
             formatting_suggestions |-> PyList(<<PyStr("Use bullets")>>),
             content_enhancements   |-> PyList(<<>>) ])

\* json.loads(content): the value parsed, or JSONDecodeError.
JsonLoads(content) ==
    CASE content = ReplyList        -> Return(PyList(<<>>))
      [] content = ReplyNull        -> Return(PyNone)
      [] content = ReplyFull        -> Return(ReplyFullValue)
      [] content = ReplyOver        ->
            Return(PyDict([ overall_match_score |-> PyInt(150),
                            strengths           |-> PyList(<<>>) ]))
      [] content = ReplyUnder       ->
            Return(PyDict([ overall_match_score |-> PyInt(-5) ]))
      [] content = ReplySuggestions -> Return(ReplySuggestionsValue)
      [] OTHER                      -> Raise("Expecting value: line 1 column 1 (char 0)")

\* What llm.invoke does on the match-analysis prompt: it raises, or it
\* returns a response with this content.
MatchCallOutcomes ==
    { Raise("Connection error.") }
    \cup { Return(c) : c \in {ReplyNotJson, ReplyList, ReplyNull, ReplyFull,
                              ReplyOver, ReplyUnder} }

\* What llm.invoke does on the improvement prompt.
SuggestCallOutcomes ==
    { Raise("Rate limit exceeded") }
    \cup { Return(c) : c \in {ReplyNotJson, ReplyList, ReplyNull, ReplySuggestions} }

(***************************************************************************)
(* ResumeAnalyzer._parse_fallback_response, _parse_fallback_suggestions    *)
(***************************************************************************)
FallbackResponse ==
    PyDict([ overall_match_score |-> PyInt(50),
             strengths           |-> PyList(<<PyStr("Analysis completed")>>),
             weaknesses          |-> PyList(<<PyStr("Response parsing issue")>>),
             missing_keywords    |-> PyList(<<>>),
             recommendations     |-> PyList(<<PyStr("Consider manual review")>>),
             skill_matches       |->
                 PyDict([ technical_skills |-> PyList(<<>>),
                          soft_skills      |-> PyList(<<>>),
                          missing_skills   |-> PyList(<<>>) ]),
             experience_analysis |->
                 PyDict([ relevant_experience |-> PyStr("Analysis incomplete"),
                          experience_gaps     |-> PyStr("Unknown"),
                          years_match         |-> PyStr("Cannot determine") ]) ])

FallbackSuggestions ==
    PyDict([ immediate_improvements |->
                 PyList(<< PyDict([ section          |-> PyStr("General"),
                                    current_issue    |-> PyStr("Response parsing issue"),
                                    suggested_change |-> PyStr("Manual review recommended") ]) >>),
             keyword_optimization   |-> PyList(<<>>),
             formatting_suggestions |-> PyList(<<PyStr("Review document formatting")>>),
             content_enhancements   |-> PyList(<<PyStr("Consider professional review")>>) ])

\* The record get_improvement_suggestions returns from its except clause.
EmptySuggestions ==
    PyDict([ immediate_improvements |-> PyList(<<>>),
             keyword_optimization   |-> PyList(<<>>),
             formatting_suggestions |-> PyList(<<>>),
             content_enhancements   |-> PyList(<<>>) ])

(***************************************************************************)
(* Percentages.  A float percentage rounded to two decimals is held as an  *)
(* integer number of hundredths of a percent (100.00 is 10000); a cosine   *)
(* similarity is held in units of 0.00001 (1.0 is 100000).                 *)
(***************************************************************************)
\* n / d rounded to the nearest integer (d > 0).
RoundDiv(n, d) == (2 * n + d) \div (2 * d)

\* round(x * 100, 2) for a cosine x.
RoundCosinePercent(x) == RoundDiv(x, 10)

(***************************************************************************)
(* ResumeAnalyzer.calculate_semantic_similarity                            *)
(*   sem.loaded: whether __init__ loaded the sentence transformer          *)
(*   sem.cosine: the outcome of encoding both texts and taking the cosine  *)
(***************************************************************************)
CosineSamples == {-12346, 87654}

SemEnvs ==
    { [loaded |-> FALSE, cosine |-> Return(0)] }
    \cup { [loaded |-> TRUE, cosine |-> o] :
             o \in {Raise("encode failed")} \cup {Return(c) : c \in CosineSamples} }

CalculateSemanticSimilarityBody(sem) ==
    IF ~sem.loaded THEN Return(0) ELSE sem.cosine

CalculateSemanticSimilarityNoCatch(sem) == CalculateSemanticSimilarityBody(sem)

calculate_semantic_similarity(sem) ==
    ExceptReturn(CalculateSemanticSimilarityBody(sem), 0)

(***************************************************************************)
(* The keyword overlap of analyze_resume.                                  *)
(***************************************************************************)
\* extract_keywords' default top_n.
DefaultTopN == 20

\* set(resume_keywords) & set(job_keywords)
CommonKeywordSet(rk, jk) == Range(rk) \cap Range(jk)

MissingKeywordSetNoDifference(rk, jk) == Range(jk)

\* set(job_keywords) - set(resume_keywords)
MissingKeywordSet(rk, jk) == Range(jk) \ Range(rk)

\* The orders in which a set of n elements may be iterated.
Orderings(S) ==
    {f \in [1..Cardinality(S) -> S] : \A i, j \in DOMAIN f : i # j => f[i] # f[j]}

\* list(S), when sets iterate in the order hashOrder of their elements.
ListOfSet(S, hashOrder) == SelectSeqBy(hashOrder, S)

KeywordMatchRateFloorDiv(common, jk) ==
    IF jk # <<>> THEN (Cardinality(common) \div Len(jk)) * 10000 ELSE 0

KeywordMatchRateNoPercent(common, jk) ==
    IF jk # <<>> THEN RoundDiv(Cardinality(common) * 100, Len(jk)) ELSE 0

\* round((len(common) / len(job_keywords) if job_keywords else 0) * 100, 2)
KeywordMatchRate(common, jk) ==
    IF jk # <<>> THEN RoundDiv(Cardinality(common) * 10000, Len(jk)) ELSE 0

(***************************************************************************)
(* ResumeAnalyzer.analyze_resume                                           *)
(*   env.llm    what llm.invoke does                                       *)
(*   env.punkt  whether word_tokenize works                                *)
(*   env.sem    the sentence transformer                                   *)
(*   env.order  the iteration order of sets of strings                     *)
(*   env.now    datetime.now().isoformat()                                 *)
(***************************************************************************)
ParseMatchResponseNoFallback(content) == JsonLoads(content)

\* The inner try of analyze_resume: json.loads, and on JSONDecodeError
\* _parse_fallback_response.
ParseMatchResponse(content) ==
    LET parsed == JsonLoads(content)
    IN  IF parsed.raised THEN Return(FallbackResponse) ELSE parsed

\* The keyword_analysis of a result, from the two keyword lists.
KeywordAnalysis(rk, jk, order) ==
    [ resume_keywords    |-> rk,
      job_keywords       |-> jk,
      common_keywords    |-> ListOfSet(CommonKeywordSet(rk, jk), order),
      keyword_match_rate |-> KeywordMatchRate(CommonKeywordSet(rk, jk), jk),
      missing_keywords   |-> ListOfSet(MissingKeywordSet(rk, jk), order) ]

AnalysisOfObjectReplyOnly(ai_analysis, rkOut, jkOut, semOut, env) ==
    IF rkOut.raised THEN Raise(rkOut.value)
    ELSE IF jkOut.raised THEN Raise(jkOut.value)
    ELSE IF semOut.raised THEN Raise(semOut.value)
    ELSE Return([ ai_analysis         |-> ai_analysis,
                  keyword_analysis    |->
                      KeywordAnalysis(rkOut.value,
                                      IF ai_analysis.t = "dict" THEN jkOut.value ELSE <<>>,
                                      env.order),
                  semantic_similarity |-> RoundCosinePercent(semOut.value),
                  analysis_timestamp  |-> env.now ])

\* The try block after the reply is parsed: rkOut, jkOut and semOut are the
\* outcomes of the two extract_keywords calls and of
\* calculate_semantic_similarity.
AnalysisOf(ai_analysis, rkOut, jkOut, semOut, env) ==
    IF rkOut.raised THEN Raise(rkOut.value)
    ELSE IF jkOut.raised THEN Raise(jkOut.value)
    ELSE IF semOut.raised THEN Raise(semOut.value)
    ELSE Return([ ai_analysis         |-> ai_analysis,
                  keyword_analysis    |-> KeywordAnalysis(rkOut.value, jkOut.value, env.order),
                  semantic_similarity |-> RoundCosinePercent(semOut.value),
                  analysis_timestamp  |-> env.now ])

\* The try block from the parsed reply on.
AnalysisOfParsed(parsed, resume_text, job_description, env) ==
    IF parsed.raised
    THEN Raise(parsed.value)
    ELSE AnalysisOf(parsed.value,
                    extract_keywords(StrArg(resume_text), DefaultTopN, env.punkt),
                    extract_keywords(StrArg(job_description), DefaultTopN, env.punkt),
                    calculate_semantic_similarity(env.sem),
                    env)

\* The body of the try block.
AnalyzeResumeBody(resume_text, job_description, env) ==
    IF env.llm.raised
    THEN Raise(env.llm.value)
    ELSE AnalysisOfParsed(ParseMatchResponse(env.llm.value), resume_text,
                          job_description, env)

ErrorResultNoTimestamp(msg, now) ==
    [ error               |-> msg,
      ai_analysis         |-> EmptyDict,
      keyword_analysis    |-> <<>>,
      semantic_similarity |-> 0 ]

\* The result analyze_resume builds in its except clause.
ErrorResult(msg, now) ==
    [ error               |-> msg,
      ai_analysis         |-> EmptyDict,
      keyword_analysis    |-> <<>>,
      semantic_similarity |-> 0,
      analysis_timestamp  |-> now ]

\* try: body, except Exception as e: return the error-tagged result.
ExceptErrorResult(body, now) ==
    IF body.raised THEN Return(ErrorResult(body.value, now)) ELSE body

AnalyzeResumeNoCatch(resume_text, job_description, env) ==
    AnalyzeResumeBody(resume_text, job_description, env)

\* analyze_resume: its outcome (it returns the body's result, or the
\* error-tagged result when the body raises).
analyze_resume(resume_text, job_description, env) ==
    ExceptErrorResult(AnalyzeResumeBody(resume_text, job_description, env), env.now)

(***************************************************************************)
(* ResumeAnalyzer.get_improvement_suggestions                              *)
(***************************************************************************)
\* An analysis argument that is not a dict.
NotADict == [not_a_dict |-> TRUE]

\* A value json.dumps cannot serialize.
PySet == [t |-> "set", v |-> <<>>]

\* analysis.get("ai_analysis", {})
AnalysisGet(analysis) ==
    IF "ai_analysis" \in DOMAIN analysis THEN analysis.ai_analysis ELSE EmptyDict

\* json.dumps(value): the JSON text of value.
JsonDumps(value) == [json_text_of |-> value]

ImprovementPromptNoAnalysis(resume_text, job_description, analysis) ==
    [ template        |-> "improvement_prompt",
      resume_text     |-> resume_text,
      job_description |-> job_description,
      analysis        |-> JsonDumps(EmptyDict) ]

\* improvement_prompt.format(...)
ImprovementPrompt(resume_text, job_description, analysis) ==
    [ template        |-> "improvement_prompt",
      resume_text     |-> resume_text,
      job_description |-> job_description,
      analysis        |-> JsonDumps(AnalysisGet(analysis)) ]

\* Building the prompt: analysis.get raises on a value that is not a dict,
\* json.dumps on a value that is not serializable.
FormatImprovementPrompt(resume_text, job_description, analysis) ==
    IF "not_a_dict" \in DOMAIN analysis
    THEN Raise("object has no attribute 'get'")
    ELSE IF AnalysisGet(analysis).t = "set"
    THEN Raise("Object of type set is not JSON serializable")
    ELSE Return(ImprovementPrompt(resume_text, job_description, analysis))

ParseSuggestionsResponseEmptyFallback(content) ==
    LET parsed == JsonLoads(content)
    IN  IF parsed.raised THEN EmptySuggestions ELSE parsed.value

\* The inner try of get_improvement_suggestions: json.loads, and on
\* JSONDecodeError _parse_fallback_suggestions.
ParseSuggestionsResponse(content) ==
    LET parsed == JsonLoads(content)
    IN  IF parsed.raised THEN FallbackSuggestions ELSE parsed.value

\* The body of the try block; llm is what llm.invoke does on the prompt.
GetImprovementSuggestionsBody(resume_text, job_description, analysis, llm) ==
    LET prompt == FormatImprovementPrompt(resume_text, job_description, analysis)
    IN  IF prompt.raised THEN Raise(prompt.value)
        ELSE IF llm.raised THEN Raise(llm.value)
        ELSE Return(ParseSuggestionsResponse(llm.value))

GetImprovementSuggestionsNoCatch(resume_text, job_description, analysis, llm) ==
    GetImprovementSuggestionsBody(resume_text, job_description, analysis, llm)

get_improvement_suggestions(resume_text, job_description, analysis, llm) ==
    ExceptReturn(GetImprovementSuggestionsBody(resume_text, job_description, analysis, llm),
                 EmptySuggestions)

(***************************************************************************)
(* utils/config.py                                                         *)
(***************************************************************************)
\* Config.get_openrouter_api_key; key_set: a key is in the environment or
\* in the Streamlit secrets.
get_openrouter_api_key(key_set) ==
    IF key_set THEN Return("api-key") ELSE Raise("OpenRouter API key not found.")

ValidateConfigAlwaysValid(key_set) == [valid |-> TRUE, issues |-> <<>>]

\* Config.validate_config
validate_config(key_set) ==
    LET key == get_openrouter_api_key(key_set)
    IN  IF key.raised
        THEN [valid |-> FALSE, issues |-> <<key.value>>]
        ELSE [valid |-> TRUE, issues |-> <<>>]

(***************************************************************************)
(* app.py: validate_inputs                                                 *)
(***************************************************************************)
\* Config.MAX_FILE_SIZE_MB
MAX_FILE_SIZE_MB == 10

BytesPerMB == 1024 * 1024

\* The job description must have at least this many characters.
MinJobDescriptionLen == 50

RECURSIVE LStrip(_)
LStrip(text) ==
    IF text # <<>> /\ IsSpaceChar(Head(text)) THEN LStrip(Tail(text)) ELSE text

RECURSIVE RStrip(_)
RStrip(text) ==
    IF text # <<>> /\ IsSpaceChar(text[Len(text)])
    THEN RStrip(SubSeq(text, 1, Len(text) - 1))
    ELSE text

\* str.strip()
Strip(text) == RStrip(LStrip(text))

\* No file was uploaded.
NoFile == [present |-> FALSE, name_is_pdf |-> FALSE, size |-> 0,
           is_pdf |-> FALSE, page_text |-> <<>>]

ValidateInputsNoStrip(file, job) ==
    (IF ~file.present
     THEN <<"Please upload a resume PDF file.">>
     ELSE (IF ~file.name_is_pdf THEN <<"Please upload a PDF file only.">> ELSE <<>>)
          \o (IF file.size > MAX_FILE_SIZE_MB * BytesPerMB
              THEN <<"File size exceeds maximum allowed size.">> ELSE <<>>))
    \o (IF job = <<>> \/ Len(job) < MinJobDescriptionLen
        THEN <<"Please provide a detailed job description (at least 50 characters).">>
        ELSE <<>>)

\* The list of errors of validate_inputs; the inputs are valid when it is empty.
validate_inputs(file, job) ==
    (IF ~file.present
     THEN <<"Please upload a resume PDF file.">>
     ELSE (IF ~file.name_is_pdf THEN <<"Please upload a PDF file only.">> ELSE <<>>)
          \o (IF file.size > MAX_FILE_SIZE_MB * BytesPerMB
              THEN <<"File size exceeds maximum allowed size.">> ELSE <<>>))
    \o (IF job = <<>> \/ Len(Strip(job)) < MinJobDescriptionLen
        THEN <<"Please provide a detailed job description (at least 50 characters).">>
        ELSE <<>>)

(***************************************************************************)
(* services/pdf_parser.py                                                  *)
(***************************************************************************)
\* Extracted text must be longer than this to count.
MinExtractedLen == 10

\* PDFParser.validate_pdf
validate_pdf(file) ==
    IF file.is_pdf
    THEN [is_valid |-> TRUE, error |-> "", file_size |-> file.size, page_count |-> 1]
    ELSE [is_valid |-> FALSE, error |-> "Invalid PDF file: cannot open broken document",
          file_size |-> file.size, page_count |-> 0]

\* PDFParser.extract_text_pymupdf: the text of the pages, stripped.
extract_text_pymupdf(file) == Strip(file.page_text)

ExtractTextAtLeastMin(file) ==
    LET text == extract_text_pymupdf(file)
    IN  IF text # <<>> /\ Len(Strip(text)) >= MinExtractedLen
        THEN [text |-> text, method_used |-> "pymupdf", success |-> TRUE,
              error |-> "", page_count |-> 1]
        ELSE [text |-> <<>>, method_used |-> "pymupdf", success |-> FALSE,
              error |-> "No text extracted or text too short", page_count |-> 1]

\* PDFParser.extract_text
extract_text(file) ==
    LET text == extract_text_pymupdf(file)
    IN  IF text # <<>> /\ Len(Strip(text)) > MinExtractedLen
        THEN [text |-> text, method_used |-> "pymupdf", success |-> TRUE,
              error |-> "", page_count |-> 1]
        ELSE [text |-> <<>>, method_used |-> "pymupdf", success |-> FALSE,
              error |-> "No text extracted or text too short", page_count |-> 1]

(***************************************************************************)
(* app.py: display_results and the ui_components it calls.                 *)
(***************************************************************************)
\* display_score_gauge: max(0, min(100, score))
ClampScore(x, top) == IF x < 0 THEN 0 ELSE IF x > top THEN top ELSE x

\* What display_results puts on the page for a successful result: the
\* overall match score in each place it is written, and the same for the
\* semantic similarity; or the exception that ends it.
display_results(results) ==
    LET analysis    == results.analysis
        ai_analysis == analysis.ai_analysis
        suggestions == results.suggestions
        semantic    == analysis.semantic_similarity
    IN  IF ai_analysis.t # "dict"
        THEN \* display_analysis_summary: ai_analysis.get(...)
             [status |-> "crashed", error |-> "object has no attribute 'get'",
              scores |-> <<>>, semantic |-> <<>>]
        ELSE
        LET score == DictGet(ai_analysis, "overall_match_score", PyInt(0))
        IN  IF score.t # "int"
            THEN [status |-> "crashed", error |-> "unsupported operand type(s) for -",
                  scores |-> <<>>, semantic |-> <<>>]
            ELSE IF Truthy(suggestions) /\ suggestions.t # "dict"
            THEN \* display_improvement_suggestions: suggestions.get(...)
                 [status |-> "crashed", error |-> "object has no attribute 'get'",
                  scores   |-> [metric |-> score.v, gauge |-> ClampScore(score.v, 100)],
                  semantic |-> [metric |-> semantic, gauge |-> ClampScore(semantic, 10000)]]
            ELSE [status |-> "shown", error |-> "",
                  scores |->
                      [place \in {"metric", "gauge", "report"}
                                 \cup (IF "overall_match_score" \in DOMAIN ai_analysis.v
                                       THEN {"json_export"} ELSE {}) |->
                          IF place = "gauge" THEN ClampScore(score.v, 100) ELSE score.v],
                  semantic |->
                      [place \in {"metric", "gauge", "report", "json_export"} |->
                          IF place = "gauge" THEN ClampScore(semantic, 10000) ELSE semantic]]

(***************************************************************************)
(* Inputs of a request.                                                    *)
(***************************************************************************)
\* Longest keyword part, in words, of a resume and of a job description.
MaxResumeWords == 1

\* Most analyzers built over the requests of one run of the application.
MaxLoads == 2

MaxJobWords == 1

ResumeVocabulary == { <<"a","w","s">>, <<"s","q","l">> }

JobVocabulary ==
    { <<"a","w","s">>,                       \* aws
      <<"S","Q","L">>,                       \* SQL
      <<"a","w","s","/","S","Q","L">> }      \* aws/SQL  (two keywords)

\* Stop words that make a resume long enough to be extracted (11 characters).
ResumeFiller == << <<"f","o","r">>, <<"t","h","e">>, <<"a","n","d">> >>

\* Stop words that make a job description long enough (51 characters).
JobFiller == [i \in 1..13 |-> IF i % 2 = 1 THEN <<"a","n","d">> ELSE <<"t","h","e">>]

ResumeWordLists == UNION {[1..k -> ResumeVocabulary] : k \in 0..MaxResumeWords}

JobWordLists == UNION {[1..k -> JobVocabulary] : k \in 0..MaxJobWords}

\* A page of 10 characters and a line end.
BoundaryPageText == <<"a","w","s"," ","s","q","l"," ","g","o","\n">>

\* The text of the pages of an uploaded PDF: long enough, or too short.
PageTexts ==
    {JoinWords(ws \o ResumeFiller) : ws \in ResumeWordLists}
    \cup {JoinWords(ws) : ws \in ResumeWordLists}
    \cup {BoundaryPageText}

\* Job descriptions of 50 and of 49 characters, and one of 47 characters
\* between blanks.
BoundaryJobDescriptions ==
    LET filler == JoinWords(JobFiller)
    IN  { SubSeq(filler, 1, MinJobDescriptionLen),
          SubSeq(filler, 1, MinJobDescriptionLen - 1),
          <<" ", " ">> \o SubSeq(filler, 1, MinJobDescriptionLen - 3) \o <<" ", "\n">> }

JobDescriptions ==
    {JoinWords(ws \o JobFiller) : ws \in JobWordLists}
    \cup {JoinWords(ws) : ws \in JobWordLists}
    \cup BoundaryJobDescriptions

UploadedFiles ==
    { NoFile }
    \cup [ present : {TRUE}, name_is_pdf : BOOLEAN,
           size : {MAX_FILE_SIZE_MB * BytesPerMB, MAX_FILE_SIZE_MB * BytesPerMB + 1},
           is_pdf : BOOLEAN, page_text : PageTexts ]

\* The words a request's texts can give as keywords, and the orders in
\* which a set of them may iterate.
RequestKeywords ==
    UNION { Range(extract_keywords(StrArg(w), DefaultTopN, TRUE).value) :
              w \in ResumeVocabulary \cup JobVocabulary }

HashOrders == Orderings(RequestKeywords)

Timestamps == {"2024-05-01T12:00:00"}

(***************************************************************************)
(* State.                                                                  *)
(***************************************************************************)
VARIABLES
    kw_arg,           \* extract_keywords called alone: its text argument
    kw_top_n,         \*   its top_n argument
    kw_punkt,         \*   whether word_tokenize works (punkt data found)
    kw_pc,            \*   "call" before the call, "done" after
    kw_out,           \*   its outcome
    pc,               \* where main() is in the request
    api_key_set,      \* whether OPENROUTER_API_KEY is configured
    uploaded_file,    \* the file of the request
    job_description,  \* the job description of the request
    resume_text,      \* the text extracted from the file
    match_call,       \* what llm.invoke did on the match-analysis prompt
    sem_env,          \* the sentence transformer of the request's analyzer
    analysis_result,  \* what analyze_resume returned
    suggest_prompt,   \* the prompt get_improvement_suggestions built
    suggest_call,     \* what llm.invoke did on the improvement prompt
    results,          \* what process_resume_analysis returned
    display,          \* what main() put on the page
    steps,            \* the steps of the request so far
    loads,            \* how often each resource was loaded since the start
    sg_pc,            \* get_improvement_suggestions called alone: "call", "done"
    sg_out            \*   its outcome

kwVars == <<kw_arg, kw_top_n, kw_punkt, kw_pc, kw_out>>

reqVars == <<pc, api_key_set, uploaded_file, job_description, resume_text, match_call,
             sem_env, analysis_result, suggest_prompt, suggest_call, results, display,
             steps, loads>>

sgVars == <<sg_pc, sg_out>>

vars == <<kw_arg, kw_top_n, kw_punkt, kw_pc, kw_out,
          pc, api_key_set, uploaded_file, job_description, resume_text, match_call,
          sem_env, analysis_result, suggest_prompt, suggest_call, results, display,
          steps, loads, sg_pc, sg_out>>

\* Not set yet.
Unset == PyNone

NoCall == [raised |-> FALSE, value |-> "", made |-> FALSE]

Made(outcome) == [raised |-> outcome.raised, value |-> outcome.value, made |-> TRUE]

NoSem == [loaded |-> FALSE, cosine |-> Return(0)]

KwIdle ==
    /\ kw_arg = NotAStr
    /\ kw_top_n = 0
    /\ kw_punkt = TRUE
    /\ kw_pc = "off"
    /\ kw_out = Return(<<>>)

\* Nothing is loaded when the application starts.
NoLoads == [sentence_model |-> 0, stop_words |-> 0]

SgIdle ==
    /\ sg_pc = "off"
    /\ sg_out = Return(EmptyDict)

ReqIdle ==
    /\ pc = "idle"
    /\ uploaded_file = NoFile
    /\ job_description = <<>>
    /\ resume_text = <<>>
    /\ match_call = NoCall
    /\ sem_env = NoSem
    /\ analysis_result = Unset
    /\ suggest_prompt = Unset
    /\ suggest_call = NoCall
    /\ results = Unset
    /\ display = Unset
    /\ steps = <<>>
    /\ loads = NoLoads

(***************************************************************************)
(* extract_keywords called alone, on every text and top_n of the bounds.   *)
(***************************************************************************)
KwInit ==
    /\ kw_arg \in {StrArg(t) : t \in TextsUpTo(MaxWords)} \cup {NotAStr}
    /\ kw_top_n \in 0..MaxTopN
    /\ kw_punkt \in BOOLEAN
    /\ kw_pc = "call"
    /\ kw_out = Return(<<>>)
    /\ ReqIdle
    /\ SgIdle
    /\ api_key_set = TRUE

KwCall ==
    /\ kw_pc = "call"
    /\ kw_out' = extract_keywords(kw_arg, kw_top_n, kw_punkt)
    /\ kw_pc' = "done"
    /\ UNCHANGED <<kw_arg, kw_top_n, kw_punkt>>
    /\ UNCHANGED reqVars
    /\ UNCHANGED sgVars

KwNext == KwCall

SpecKw == KwInit /\ [][KwNext]_vars

(***************************************************************************)
(* get_improvement_suggestions called alone, on analysis records of every  *)
(* kind and every outcome of the model call.                               *)
(***************************************************************************)
\* The analysis arguments: what analyze_resume returns for a reply of the
\* model, a dict without ai_analysis, one whose ai_analysis cannot be
\* serialized, and a value that is not a dict.
SgAnalysisOf(llm) ==
    analyze_resume(JoinWords(ResumeFiller), JoinWords(JobFiller),
                   [llm |-> llm, punkt |-> TRUE, sem |-> NoSem,
                    order |-> <<>>, now |-> "2024-05-01T12:00:00"]).value

IsSgAnalysis(analysis) ==
    \/ \E llm \in MatchCallOutcomes : analysis = SgAnalysisOf(llm)
    \/ analysis = [analysis_timestamp |-> "2024-05-01T12:00:00"]
    \/ analysis = [ai_analysis |-> PySet]
    \/ analysis = NotADict

SgInit ==
    /\ KwIdle
    /\ sg_pc = "call"
    /\ sg_out = Return(EmptyDict)
    /\ pc = "off"
    /\ api_key_set = TRUE
    /\ uploaded_file = NoFile
    /\ resume_text \in {extract_text_pymupdf(f) : f \in UploadedFiles}
    /\ job_description \in JobDescriptions
    /\ IsSgAnalysis(analysis_result)
    /\ match_call = NoCall
    /\ sem_env = NoSem
    /\ suggest_prompt = Unset
    /\ suggest_call = NoCall
    /\ results = Unset
    /\ display = Unset
    /\ steps = <<>>
    /\ loads = NoLoads

SgCall ==
    /\ sg_pc = "call"
    /\ \E llm \in SuggestCallOutcomes :
          LET prompt == FormatImprovementPrompt(resume_text, job_description,
                                                analysis_result)
          IN  /\ suggest_prompt' = (IF prompt.raised THEN Unset ELSE prompt.value)
              /\ suggest_call' = (IF prompt.raised THEN NoCall ELSE Made(llm))
              /\ sg_out' = get_improvement_suggestions(resume_text, job_description,
                                                       analysis_result, llm)
    /\ sg_pc' = "done"
    /\ UNCHANGED <<pc, api_key_set, uploaded_file, job_description, resume_text,
                   match_call, sem_env, analysis_result, results, display, steps,
                   loads>>
    /\ UNCHANGED kwVars

SgNext == SgCall

SpecSg == SgInit /\ [][SgNext]_vars

(***************************************************************************)
(* One request after another: main() when "Analyze Resume" is pressed.     *)
(***************************************************************************)
Init ==
    /\ KwIdle
    /\ SgIdle
    /\ ReqIdle
    /\ api_key_set \in BOOLEAN

\* The user presses the button with a file and a job description.
Submit ==
    /\ pc = "idle"
    /\ loads.sentence_model < MaxLoads
    /\ uploaded_file' \in UploadedFiles
    /\ job_description' \in JobDescriptions
    /\ pc' = "validate_inputs"
    /\ UNCHANGED <<api_key_set, resume_text, match_call, sem_env, analysis_result,
                   suggest_prompt, suggest_call, results, display, steps,
                   loads>>
    /\ UNCHANGED kwVars
    /\ UNCHANGED sgVars

\* main(): validate_inputs; on errors they are shown and the request ends.
ValidateInputs ==
    /\ pc = "validate_inputs"
    /\ LET errors == validate_inputs(uploaded_file, job_description)
       IN  IF errors # <<>>
           THEN /\ display' = [status |-> "invalid_inputs", error |-> errors,
                               scores |-> <<>>, semantic |-> <<>>]
                /\ pc' = "done"
           ELSE /\ display' = display
                /\ pc' = "validate_config"
    /\ steps' = Append(steps, "validate_inputs")
    /\ UNCHANGED <<api_key_set, uploaded_file, job_description, resume_text, match_call,
                   sem_env, analysis_result, suggest_prompt, suggest_call, results,
                   loads>>
    /\ UNCHANGED kwVars
    /\ UNCHANGED sgVars

FailureKeepsReport(prefix, msg) ==
    [success |-> FALSE, error |-> <<prefix, msg>>, analysis |-> analysis_result,
     suggestions |-> EmptyDict]

\* The result process_resume_analysis returns on a fatal error: the prefix of
\* the step and the message.
Failure(prefix, msg) == [success |-> FALSE, error |-> <<prefix, msg>>]

\* process_resume_analysis: Config.validate_config()
ValidateConfig ==
    /\ pc = "validate_config"
    /\ LET config_validation == validate_config(api_key_set)
       IN  IF ~config_validation.valid
           THEN /\ results' = Failure("Configuration error: ", config_validation.issues[1])
                /\ pc' = "show"
           ELSE /\ results' = results
                /\ pc' = "validate_pdf"
    /\ steps' = Append(steps, "validate_config")
    /\ UNCHANGED <<api_key_set, uploaded_file, job_description, resume_text, match_call,
                   sem_env, analysis_result, suggest_prompt, suggest_call, display,
                   loads>>
    /\ UNCHANGED kwVars
    /\ UNCHANGED sgVars

\* process_resume_analysis, step 1: pdf_parser.validate_pdf.  st_raises: a
\* Streamlit call of the step raises, which the outermost except turns into
\* a failure.
ValidatePdf ==
    /\ pc = "validate_pdf"
    /\ \E st_raises \in BOOLEAN :
          LET validation == validate_pdf(uploaded_file)
          IN  IF ~validation.is_valid
              THEN /\ results' = Failure("PDF validation failed: ", validation.error)
                   /\ pc' = "show"
              ELSE IF st_raises
              THEN /\ results' = Failure("Processing error: ", "st.write failed")
                   /\ pc' = "show"
              ELSE /\ results' = results
                   /\ pc' = "extract_text"
    /\ steps' = Append(steps, "validate_pdf")
    /\ UNCHANGED <<api_key_set, uploaded_file, job_description, resume_text, match_call,
                   sem_env, analysis_result, suggest_prompt, suggest_call, display,
                   loads>>
    /\ UNCHANGED kwVars
    /\ UNCHANGED sgVars

\* process_resume_analysis, step 2: pdf_parser.extract_text
ExtractText ==
    /\ pc = "extract_text"
    /\ LET extraction_result == extract_text(uploaded_file)
       IN  IF ~extraction_result.success
           THEN /\ results' = Failure("Text extraction failed: ", extraction_result.error)
                /\ resume_text' = resume_text
                /\ pc' = "show"
           ELSE /\ results' = results
                /\ resume_text' = extraction_result.text
                /\ pc' = "analyze"
    /\ steps' = Append(steps, "extract_text")
    /\ UNCHANGED <<api_key_set, uploaded_file, job_description, match_call,
                   sem_env, analysis_result, suggest_prompt, suggest_call, display,
                   loads>>
    /\ UNCHANGED kwVars
    /\ UNCHANGED sgVars

\* Step 3 once analyze_resume has ended with outcome out: an exception is
\* caught by the step's except, an error-tagged result ends the request.
AnalyzeEnds(out) ==
    IF out.raised
    THEN /\ analysis_result' = analysis_result
         /\ results' = Failure("AI analysis error: ", out.value)
         /\ pc' = "show"
    ELSE /\ analysis_result' = out.value
         /\ IF "error" \in DOMAIN out.value
            THEN /\ results' = Failure("Analysis failed: ", out.value.error)
                 /\ pc' = "show"
            ELSE /\ results' = results
                 /\ pc' = "suggest"

\* Step 3 when the key is read or the analyzer built with outcome made.
AnalyzeNotStarted(made, built) ==
    /\ results' = Failure("AI analysis error: ", made.value)
    /\ UNCHANGED <<match_call, sem_env, analysis_result>>
    /\ steps' = steps \o built
    /\ pc' = "show"

\* ResumeAnalyzer.__init__: SentenceTransformer(...) and
\* stopwords.words('english') are run by every analyzer that is built.
LoadsAfterInit(before) ==
    [ sentence_model |-> before.sentence_model + 1,
      stop_words     |-> before.stop_words + 1 ]

MatchCallsRetrying(llm) ==
    IF llm.raised \/ JsonLoads(llm.value).raised
    THEN <<"match_call", "match_call">>
    ELSE <<"match_call">>

\* The llm.invoke calls of analyze_resume: one, whatever its outcome llm.
MatchCalls(llm) == <<"match_call">>

\* The llm.invoke calls of get_improvement_suggestions: one when the prompt
\* was built, whatever its outcome llm.
SuggestCalls(prompt, llm) == IF prompt.raised THEN <<>> ELSE <<"suggest_call">>

\* process_resume_analysis, step 3: the API key is read, a ResumeAnalyzer is
\* built (either may raise) and analyze_resume is called; an error-tagged
\* result ends the request as a failure.
Analyze ==
    /\ pc = "analyze"
    /\ \E ctor_raises \in BOOLEAN :
          IF get_openrouter_api_key(api_key_set).raised
          THEN /\ AnalyzeNotStarted(get_openrouter_api_key(api_key_set), <<>>)
               /\ loads' = loads
          ELSE IF ctor_raises
          THEN /\ AnalyzeNotStarted(Raise("Resource stopwords not found."), <<"new_analyzer">>)
               /\ loads' = LoadsAfterInit(loads)
          ELSE \E llm \in MatchCallOutcomes, punkt \in BOOLEAN, sem \in SemEnvs,
                  order \in HashOrders, now \in Timestamps :
                  /\ match_call' = Made(llm)
                  /\ sem_env' = sem
                  /\ loads' = LoadsAfterInit(loads)
                  /\ steps' = steps \o <<"new_analyzer">> \o MatchCalls(llm)
                  /\ AnalyzeEnds(analyze_resume(resume_text, job_description,
                                                [llm |-> llm, punkt |-> punkt, sem |-> sem,
                                                 order |-> order, now |-> now]))
    /\ UNCHANGED <<api_key_set, uploaded_file, job_description, resume_text,
                   suggest_prompt, suggest_call, display>>
    /\ UNCHANGED kwVars
    /\ UNCHANGED sgVars

SuggestionsStepNoCatch(out, st_raises) ==
    IF out.raised THEN out
    ELSE IF st_raises THEN Raise("st.write failed")
    ELSE out

\* The try/except of step 4: the suggestions are what
\* get_improvement_suggestions returned, or {} when it or a Streamlit call
\* of the step raised.
SuggestionsStep(out, st_raises) ==
    IF out.raised \/ st_raises THEN Return(EmptyDict) ELSE out

\* The result process_resume_analysis returns at its end.
SuccessResult(text, analysis, suggestions, validation, extraction_result) ==
    [ success     |-> TRUE,
      resume_text |-> text,
      analysis    |-> analysis,
      suggestions |-> suggestions,
      file_info   |-> [ page_count  |-> validation.page_count,
                        file_size   |-> validation.file_size,
                        method_used |-> extraction_result.method_used ] ]

\* process_resume_analysis, step 4: get_improvement_suggestions, and the
\* successful result is returned.
Suggest ==
    /\ pc = "suggest"
    /\ \E llm \in SuggestCallOutcomes, st_raises \in BOOLEAN :
          LET prompt == FormatImprovementPrompt(resume_text, job_description,
                                                analysis_result)
              out    == get_improvement_suggestions(resume_text, job_description,
                                                    analysis_result, llm)
              step   == SuggestionsStep(out, st_raises)
          IN  /\ suggest_prompt' = (IF prompt.raised THEN Unset ELSE prompt.value)
              /\ suggest_call' = (IF prompt.raised THEN NoCall ELSE Made(llm))
              /\ steps' = steps \o SuggestCalls(prompt, llm)
                                \o (IF (out.raised \/ st_raises) /\ ~step.raised
                                    THEN <<"st_warning">> ELSE <<>>)
              /\ results' = (IF step.raised
                             THEN Failure("Processing error: ", step.value)
                             ELSE SuccessResult(resume_text, analysis_result, step.value,
                                                validate_pdf(uploaded_file),
                                                extract_text(uploaded_file)))
    /\ pc' = "show"
    /\ UNCHANGED <<api_key_set, uploaded_file, job_description, resume_text, match_call,
                   sem_env, analysis_result, display,
                   loads>>
    /\ UNCHANGED kwVars
    /\ UNCHANGED sgVars

\* main(): a failure is shown as an error message, a success by display_results.
Show ==
    /\ pc = "show"
    /\ IF ~results.success
       THEN /\ display' = [status |-> "error", error |-> results.error,
                           scores |-> <<>>, semantic |-> <<>>]
            /\ steps' = Append(steps, "display_error_message")
       ELSE /\ display' = display_results(results)
            /\ steps' = Append(steps, "display_results")
    /\ pc' = "done"
    /\ UNCHANGED <<api_key_set, uploaded_file, job_description, resume_text, match_call,
                   sem_env, analysis_result, suggest_prompt, suggest_call, results,
                   loads>>
    /\ UNCHANGED kwVars
    /\ UNCHANGED sgVars

\* The page is run again for the next request: nothing of this one is kept.
NewRequest ==
    /\ pc = "done"
    /\ pc' = "idle"
    /\ uploaded_file' = NoFile
    /\ job_description' = <<>>
    /\ resume_text' = <<>>
    /\ match_call' = NoCall
    /\ sem_env' = NoSem
    /\ analysis_result' = Unset
    /\ suggest_prompt' = Unset
    /\ suggest_call' = NoCall
    /\ results' = Unset
    /\ display' = Unset
    /\ steps' = <<>>
    /\ UNCHANGED <<api_key_set, loads>>
    /\ UNCHANGED kwVars
    /\ UNCHANGED sgVars

Next ==
    \/ Submit
    \/ ValidateInputs
    \/ ValidateConfig
    \/ ValidatePdf
    \/ ExtractText
    \/ Analyze
    \/ Suggest
    \/ Show
    \/ NewRequest

Spec == Init /\ [][Next]_vars

(***************************************************************************)
(* Properties of extract_keywords called alone (SpecKw).                   *)
(***************************************************************************)
\* The tokens of the call's text.
KwTokens == Tokenize(CleanText(kw_arg.chars), kw_punkt)

\* Among tokens toks, the words that survive the stop-word and length filter.
Survivors(toks) == {w \in Range(toks) : w \notin StopWords /\ Len(w) >= 3}

FirstPos(toks, w) == CHOOSE i \in DOMAIN toks :
                        /\ toks[i] = w
                        /\ \A j \in 1..(i - 1) : toks[j] # w

\* a ranks before b: more frequent, or as frequent and seen first.
RanksBefore(toks, a, b) ==
    \/ CountOf(toks, a) > CountOf(toks, b)
    \/ /\ CountOf(toks, a) = CountOf(toks, b)
       /\ FirstPos(toks, a) < FirstPos(toks, b)

\* C5: extract_keywords returns at most top_n tokens, none of them a stop
\* word and none shorter than 3 characters, for every text and top_n >= 0.
C5_AtMostTopNNoStopNoShort ==
    kw_pc = "done" =>
        /\ ~kw_out.raised
        /\ Len(kw_out.value) <= kw_top_n
        /\ \A i \in DOMAIN kw_out.value :
              /\ kw_out.value[i] \notin StopWords
              /\ Len(kw_out.value[i]) >= 3

\* C5 witness: a text with a stop word and a short word among its tokens and
\* more surviving words than top_n, answered with exactly top_n keywords.
C5_Witness ==
    /\ kw_pc = "done" /\ kw_arg.isStr /\ kw_top_n >= 1
    /\ LET toks == KwTokens
       IN  /\ \E w \in Range(toks) : w \in StopWords
           /\ \E w \in Range(toks) : Len(w) < 3
           /\ Cardinality(Survivors(toks)) > kw_top_n
    /\ Len(kw_out.value) = kw_top_n

\* C6: the result is the first top_n surviving words in the order
\* "descending frequency, then first occurrence in the text": it is sorted in
\* that order, and every surviving word left out ranks behind every word
\* returned.
C6_RankedByFrequencyThenFirstSeen ==
    (kw_pc = "done" /\ kw_arg.isStr) =>
        LET out  == kw_out.value
            toks == KwTokens
            surv == Survivors(toks)
        IN  /\ ~kw_out.raised
            /\ Range(out) \subseteq surv
            /\ Len(out) = (IF kw_top_n < Cardinality(surv)
                           THEN kw_top_n ELSE Cardinality(surv))
            /\ \A i, j \in DOMAIN out : i < j => RanksBefore(toks, out[i], out[j])
            /\ \A w \in surv \ Range(out) :
                  \A i \in DOMAIN out : RanksBefore(toks, out[i], w)

\* C6 witness: the cut at top_n falls between two words of equal frequency.
C6_Witness ==
    /\ kw_pc = "done" /\ kw_arg.isStr /\ ~kw_out.raised
    /\ LET toks == KwTokens
       IN  \E a \in Range(kw_out.value) : \E b \in Survivors(toks) \ Range(kw_out.value) :
              /\ CountOf(toks, a) = CountOf(toks, b)
              /\ FirstPos(toks, a) < FirstPos(toks, b)

\* C7: extract_keywords never raises; when word_tokenize fails the keywords
\* come from the whitespace split of the cleaned text (and there are some
\* whenever a word survives and top_n > 0); an input that is not a string
\* gives the empty sequence.
C7_NeverRaises ==
    kw_pc = "done" =>
        /\ ~kw_out.raised
        /\ ~kw_arg.isStr => kw_out.value = <<>>
        /\ (kw_arg.isStr /\ ~kw_punkt) =>
              LET kept == Survivors(SimpleSplit(CleanText(kw_arg.chars)))
              IN  /\ Range(kw_out.value) \subseteq kept
                  /\ (kept # {} /\ kw_top_n > 0) => kw_out.value # <<>>
                  /\ kw_top_n >= Cardinality(kept) => Range(kw_out.value) = kept

\* C7 witness: word_tokenize fails on a text it would have tokenized
\* differently from the whitespace split, and keywords are still returned.
C7_Witness ==
    /\ kw_pc = "done" /\ kw_arg.isStr /\ ~kw_punkt
    /\ LET text == CleanText(kw_arg.chars)
       IN  WordTokenize(text) # SimpleSplit(text)
    /\ ~kw_out.raised
    /\ kw_out.value # <<>>

(***************************************************************************)
(* Properties of a request (Spec).                                         *)
(***************************************************************************)
\* The keywords of a text as analyze_resume extracts them.
WordsOf(text, punkt) == extract_keywords(StrArg(text), DefaultTopN, punkt).value

\* analyze_resume has returned, and its result has no error tag.
NonErrorResult == match_call.made /\ "error" \notin DOMAIN analysis_result

\* The fields of a MatchAnalysis and of its two nested records.
MatchAnalysisFields ==
    {"overall_match_score", "strengths", "weaknesses", "missing_keywords",
     "recommendations", "skill_matches", "experience_analysis"}

SkillMatchFields == {"technical_skills", "soft_skills", "missing_skills"}

ExperienceFields == {"relevant_experience", "experience_gaps", "years_match"}

KeywordAnalysisFields ==
    {"resume_keywords", "job_keywords", "common_keywords", "keyword_match_rate",
     "missing_keywords"}

\* C1: when the match-analysis model call raises, analyze_resume returns the
\* error-tagged result carrying the exception message, with empty
\* ai_analysis and keyword_analysis and semantic_similarity 0, and the
\* request ends as a failure carrying that message.
C1_ModelCallErrorIsTagged ==
    (match_call.made /\ match_call.raised) =>
        /\ "error" \in DOMAIN analysis_result
        /\ analysis_result.error = match_call.value
        /\ analysis_result.ai_analysis = EmptyDict
        /\ DOMAIN analysis_result.keyword_analysis = {}
        /\ analysis_result.semantic_similarity = 0
        /\ ~results.success
        /\ match_call.value \in Range(results.error)
        /\ pc = "done" => (display.status = "error" /\ display.error = results.error)

\* C1 witness: a request whose model call raised has been shown as an error.
C1_Witness ==
    /\ pc = "done"
    /\ match_call.made /\ match_call.raised
    /\ display.status = "error"

\* C2: when the model reply is not valid JSON, analyze_resume returns a
\* result without an error tag whose ai_analysis is the fixed fallback record
\* (score 50, one strength, one weakness, one recommendation, empty
\* missing_keywords and skill lists), with the keyword analysis and the
\* semantic similarity computed from the inputs.
C2_InvalidJsonGivesFallback ==
    (match_call.made /\ ~match_call.raised /\ JsonLoads(match_call.value).raised) =>
        /\ "error" \notin DOMAIN analysis_result
        /\ LET ai == analysis_result.ai_analysis
               ka == analysis_result.keyword_analysis
           IN  /\ ai.t = "dict"
               /\ DOMAIN ai.v = MatchAnalysisFields
               /\ ai.v["overall_match_score"] = PyInt(50)
               /\ Len(ai.v["strengths"].v) = 1
               /\ Len(ai.v["weaknesses"].v) = 1
               /\ Len(ai.v["recommendations"].v) = 1
               /\ ai.v["missing_keywords"] = PyList(<<>>)
               /\ \A f \in SkillMatchFields : ai.v["skill_matches"].v[f] = PyList(<<>>)
               /\ DOMAIN ka = KeywordAnalysisFields
               /\ \E punkt \in BOOLEAN :
                     /\ ka.resume_keywords = WordsOf(resume_text, punkt)
                     /\ ka.job_keywords = WordsOf(job_description, punkt)
        /\ analysis_result.semantic_similarity =
              (IF sem_env.loaded /\ ~sem_env.cosine.raised
               THEN RoundDiv(sem_env.cosine.value, 10) ELSE 0)

\* C2 witness: a reply that is not JSON, and the report is shown with a
\* keyword in common and a semantic similarity.
C2_Witness ==
    /\ pc = "done"
    /\ match_call.made /\ ~match_call.raised /\ match_call.value = ReplyNotJson
    /\ display.status = "shown"
    /\ analysis_result.keyword_analysis.common_keywords # <<>>
    /\ analysis_result.semantic_similarity > 0

\* C3: the overall_match_score of the result analyze_resume returns, and
\* every place the application writes that score, lies in [0,100].
C3_ScoreWithinRange ==
    /\ (NonErrorResult /\ analysis_result.ai_analysis.t = "dict"
          /\ "overall_match_score" \in DOMAIN analysis_result.ai_analysis.v) =>
            LET score == analysis_result.ai_analysis.v["overall_match_score"]
            IN  score.t = "int" /\ score.v >= 0 /\ score.v <= 100
    /\ pc = "done" =>
          \A place \in DOMAIN display.scores :
              display.scores[place] >= 0 /\ display.scores[place] <= 100

\* C4: for a reply that parses as JSON, ai_analysis is an object holding
\* every MatchAnalysis field (the nested ones included).
C4_AiAnalysisComplete ==
    (match_call.made /\ ~match_call.raised /\ ~JsonLoads(match_call.value).raised) =>
        LET ai == analysis_result.ai_analysis
        IN  /\ ai.t = "dict"
            /\ MatchAnalysisFields \subseteq DOMAIN ai.v
            /\ ai.v["skill_matches"].t = "dict"
            /\ SkillMatchFields \subseteq DOMAIN ai.v["skill_matches"].v
            /\ ai.v["experience_analysis"].t = "dict"
            /\ ExperienceFields \subseteq DOMAIN ai.v["experience_analysis"].v

\* C8 as stated: in a non-error result keyword_match_rate is 0 exactly when
\* job_keywords is empty.
C8_ZeroIffNoJobKeywords ==
    NonErrorResult =>
        LET ka == analysis_result.keyword_analysis
        IN  (ka.keyword_match_rate = 0) <=> (ka.job_keywords = <<>>)

\* C8 amended: in a non-error result keyword_match_rate is 0 exactly when no
\* job keyword is a resume keyword, which is the case when job_keywords is
\* empty.
C8_ZeroIffNoCommonKeyword ==
    NonErrorResult =>
        LET ka == analysis_result.keyword_analysis
        IN  /\ (ka.keyword_match_rate = 0) <=>
                 (Range(ka.job_keywords) \cap Range(ka.resume_keywords) = {})
            /\ ka.job_keywords = <<>> => ka.keyword_match_rate = 0

\* C8 witness: job keywords, none of them in the resume, and a rate of 0.
C8_Witness ==
    /\ NonErrorResult
    /\ analysis_result.keyword_analysis.job_keywords # <<>>
    /\ analysis_result.keyword_analysis.resume_keywords # <<>>
    /\ analysis_result.keyword_analysis.keyword_match_rate = 0

\* C9: in a non-error result keyword_match_rate lies in [0,100], and is 100
\* when job_keywords is not empty and every job keyword is a resume keyword.
C9_RateWithinRange ==
    NonErrorResult =>
        LET ka == analysis_result.keyword_analysis
        IN  /\ ka.keyword_match_rate >= 0
            /\ ka.keyword_match_rate <= 10000
            /\ (ka.job_keywords # <<>>
                  /\ Range(ka.job_keywords) \subseteq Range(ka.resume_keywords)) =>
                  ka.keyword_match_rate = 10000

\* C9 witness: every job keyword is a resume keyword and the rate is 100.
C9_Witness ==
    /\ NonErrorResult
    /\ analysis_result.keyword_analysis.job_keywords # <<>>
    /\ Range(analysis_result.keyword_analysis.job_keywords)
          \subseteq Range(analysis_result.keyword_analysis.resume_keywords)
    /\ analysis_result.keyword_analysis.keyword_match_rate = 10000

\* s has no element twice.
NoDuplicates(s) == \A i, j \in DOMAIN s : i # j => s[i] # s[j]

\* C10: in a non-error result missing_keywords is the job keywords that are
\* not resume keywords, common_keywords the keywords in both; the two are
\* disjoint, make up the job keywords, and neither holds a duplicate.
C10_MissingAndCommonPartitionJob ==
    NonErrorResult =>
        LET ka == analysis_result.keyword_analysis
            missing == Range(ka.missing_keywords)
            common  == Range(ka.common_keywords)
        IN  /\ missing = {w \in Range(ka.job_keywords) : w \notin Range(ka.resume_keywords)}
            /\ common = {w \in Range(ka.job_keywords) : w \in Range(ka.resume_keywords)}
            /\ missing \cap common = {}
            /\ missing \cup common = Range(ka.job_keywords)
            /\ NoDuplicates(ka.missing_keywords)
            /\ NoDuplicates(ka.common_keywords)

\* C10 witness: a job with a keyword the resume has and one it lacks.
C10_Witness ==
    /\ NonErrorResult
    /\ analysis_result.keyword_analysis.missing_keywords # <<>>
    /\ analysis_result.keyword_analysis.common_keywords # <<>>


(***************************************************************************)
(* Properties of get_improvement_suggestions called alone (SpecSg).        *)
(***************************************************************************)
\* The model call raised, or was not reached because the prompt could not
\* be built.
SgCallFailed == ~suggest_call.made \/ suggest_call.raised

\* The model replied with text that is not JSON.
SgReplyNotJson ==
    suggest_call.made /\ ~suggest_call.raised /\ JsonLoads(suggest_call.value).raised

SuggestionFields ==
    {"immediate_improvements", "keyword_optimization", "formatting_suggestions",
     "content_enhancements"}

\* C11: get_improvement_suggestions never raises, whatever the model call
\* does (raises, replies with text that is not JSON, replies with any JSON
\* value) and whatever analysis it is given (a dict or not, serializable or
\* not): a reply that parses is returned as parsed.
C11_SuggestionsNeverRaise ==
    sg_pc = "done" =>
        /\ ~sg_out.raised
        /\ (suggest_call.made /\ ~suggest_call.raised /\ ~SgReplyNotJson) =>
              sg_out.value = JsonLoads(suggest_call.value).value

\* C11 witness: an analysis that is not a dict (the prompt cannot be built),
\* and a record is still returned.
C11_Witness ==
    /\ sg_pc = "done"
    /\ analysis_result = NotADict
    /\ ~suggest_call.made
    /\ ~sg_out.raised

\* C12 as stated: a raising model call and a reply that is not JSON both
\* give the suggestions record with its four fields present and empty.
C12_FailureGivesEmptyRecord ==
    (sg_pc = "done" /\ (SgCallFailed \/ SgReplyNotJson)) =>
        /\ ~sg_out.raised
        /\ sg_out.value.t = "dict"
        /\ DOMAIN sg_out.value.v = SuggestionFields
        /\ \A f \in SuggestionFields : sg_out.value.v[f] = PyList(<<>>)

\* C12 amended: a raising model call gives the record with its four fields
\* present and empty; a reply that is not JSON gives the fixed fallback
\* record, with the four fields present, keyword_optimization empty and one
\* placeholder entry in each of the other three.
C12_RaiseGivesEmptyNotJsonGivesFallback ==
    sg_pc = "done" =>
        /\ SgCallFailed =>
              /\ sg_out = Return(EmptySuggestions)
              /\ DOMAIN sg_out.value.v = SuggestionFields
              /\ \A f \in SuggestionFields : sg_out.value.v[f] = PyList(<<>>)
        /\ SgReplyNotJson =>
              /\ ~sg_out.raised
              /\ sg_out.value.t = "dict"
              /\ DOMAIN sg_out.value.v = SuggestionFields
              /\ sg_out.value.v["keyword_optimization"] = PyList(<<>>)
              /\ \A f \in SuggestionFields \ {"keyword_optimization"} :
                    Len(sg_out.value.v[f].v) = 1

\* C12 witness: a reply that is not JSON, answered by the fallback record.
C12_Witness ==
    /\ sg_pc = "done"
    /\ SgReplyNotJson
    /\ sg_out = Return(FallbackSuggestions)

(***************************************************************************)
(* Properties of a request (Spec), continued.                              *)
(***************************************************************************)
\* process_resume_analysis has returned.
HasResults == pc \in {"show", "done"} /\ "validate_config" \in Range(steps)

\* The suggestions step failed: the model call raised, its reply is not
\* JSON, or the step raised and the warning was shown.
SuggestFailed ==
    \/ suggest_call.made /\ (suggest_call.raised \/ JsonLoads(suggest_call.value).raised)
    \/ "st_warning" \in Range(steps)

\* C13: when the suggestions step fails the request still ends successful,
\* the analysis of its result is the one analyze_resume returned, without an
\* error tag, and it is handed to display_results.
C13_SuggestionFailureKeepsAnalysis ==
    (pc \in {"show", "done"} /\ SuggestFailed) =>
        /\ results.success
        /\ results.analysis = analysis_result
        /\ "error" \notin DOMAIN results.analysis
        /\ pc = "done" => steps[Len(steps)] = "display_results"

\* C13 witness: the suggestions call raised and the report was shown.
C13_Witness ==
    /\ pc = "done"
    /\ suggest_call.made /\ suggest_call.raised
    /\ results.success
    /\ display.status = "shown"

\* The job description has fewer than 50 characters after trimming.
JobTooShort == Len(Strip(job_description)) < MinJobDescriptionLen

\* The upload is larger than the configured maximum.
UploadTooLarge ==
    uploaded_file.present /\ uploaded_file.size > MAX_FILE_SIZE_MB * BytesPerMB

\* C14: a request whose job description is too short, or whose upload is too
\* large, ends at validate_inputs with the validation errors shown: no
\* configuration check, PDF validation, extraction or model call is made.
C14_InvalidInputsShortCircuit ==
    (pc \notin {"idle", "validate_inputs"} /\ (JobTooShort \/ UploadTooLarge)) =>
        /\ pc = "done"
        /\ steps = <<"validate_inputs">>
        /\ display.status = "invalid_inputs"
        /\ display.error # <<>>
        /\ resume_text = <<>>
        /\ ~match_call.made
        /\ ~suggest_call.made

\* C14 witness: a valid PDF and a job description of 50 characters or more
\* of which fewer than 50 remain after trimming, rejected.
C14_Witness ==
    /\ pc = "done"
    /\ uploaded_file.present /\ uploaded_file.name_is_pdf /\ uploaded_file.is_pdf
    /\ ~UploadTooLarge
    /\ Len(job_description) >= MinJobDescriptionLen
    /\ JobTooShort
    /\ display.status = "invalid_inputs"

ProcessingSteps == {"validate_pdf", "extract_text", "new_analyzer", "match_call",
                    "suggest_call"}

\* C15: without an API key the request fails with the configuration error
\* and no processing step (PDF validation, extraction, building the
\* analyzer, a model call) is made.
C15_MissingKeyStopsBeforeProcessing ==
    (~api_key_set /\ "validate_config" \in Range(steps)) =>
        /\ "success" \in DOMAIN results
        /\ ~results.success
        /\ results.error = <<"Configuration error: ", "OpenRouter API key not found.">>
        /\ Range(steps) \cap ProcessingSteps = {}
        /\ resume_text = <<>>
        /\ ~match_call.made
        /\ ~suggest_call.made
        /\ pc = "done" => (display.status = "error" /\ display.error = results.error)

\* C15 witness: valid inputs, no API key, and the error was shown.
C15_Witness ==
    /\ pc = "done"
    /\ ~api_key_set
    /\ uploaded_file.present /\ uploaded_file.is_pdf
    /\ ~JobTooShort
    /\ display.status = "error"

\* extract_text has run and reported a failure.
ExtractionRan == "extract_text" \in Range(steps)

ExtractionFailed ==
    HasResults /\ ~results.success /\ results.error[1] = "Text extraction failed: "

\* The text of the upload's pages after trimming.
TrimmedPageText == Strip(uploaded_file.page_text)

\* C16 as stated: extraction fails exactly when the extracted text has
\* fewer than 10 characters after trimming.
C16_FailsIffShorterThanTen ==
    (ExtractionRan /\ pc # "extract_text") =>
        (ExtractionFailed <=> Len(TrimmedPageText) < MinExtractedLen)

\* C16 amended: extraction fails exactly when the extracted text has 10 or
\* fewer characters after trimming; with 11 or more it succeeds and the
\* trimmed text is the resume text.
C16_FailsIffAtMostTen ==
    (ExtractionRan /\ pc # "extract_text") =>
        /\ ExtractionFailed <=> Len(TrimmedPageText) <= MinExtractedLen
        /\ Len(TrimmedPageText) > MinExtractedLen => resume_text = TrimmedPageText

\* C16 witness: a page of exactly 10 characters, and extraction failed.
C16_Witness ==
    /\ pc = "done"
    /\ ExtractionRan
    /\ Len(TrimmedPageText) = MinExtractedLen
    /\ ExtractionFailed
    /\ display.status = "error"

\* The steps made when process_resume_analysis fails with a given prefix.
StepsOfFailure(prefix) ==
    CASE prefix = "Configuration error: " ->
             <<"validate_inputs", "validate_config">>
      [] prefix \in {"PDF validation failed: ", "Processing error: "} ->
             <<"validate_inputs", "validate_config", "validate_pdf">>
      [] prefix = "Text extraction failed: " ->
             <<"validate_inputs", "validate_config", "validate_pdf", "extract_text">>
      [] prefix = "AI analysis error: " ->
             <<"validate_inputs", "validate_config", "validate_pdf", "extract_text",
               "new_analyzer">>
      [] prefix = "Analysis failed: " ->
             <<"validate_inputs", "validate_config", "validate_pdf", "extract_text",
               "new_analyzer", "match_call">>

\* C17: process_resume_analysis always returns a record; a failure holds
\* the flag and one message only (no analysis, suggestions or file_info), no
\* step after the failing one was made, no suggestions were asked for, and
\* main shows the message and no report.
C17_FatalErrorStopsPipeline ==
    /\ (pc = "show" \/ HasResults) => "success" \in DOMAIN results
    /\ (HasResults /\ ~results.success) =>
          /\ DOMAIN results = {"success", "error"}
          /\ Len(results.error) = 2
          /\ steps = StepsOfFailure(results.error[1])
                       \o (IF pc = "done" THEN <<"display_error_message">> ELSE <<>>)
          /\ ~suggest_call.made
          /\ suggest_prompt = Unset
          /\ pc = "done" =>
                /\ display.status = "error"
                /\ display.error = results.error
                /\ display.scores = <<>>

\* C17 witness: an exception in a step outside every inner handler, and a
\* model call that raised, each shown as one error.
C17_Witness ==
    /\ pc = "done"
    /\ HasResults
    /\ ~results.success
    /\ results.error[1] \in {"Processing error: ", "Analysis failed: "}
    /\ display.status = "error"

\* C18: the suggestions call is made only after the match-analysis call has
\* returned a reply and analyze_resume a result without an error tag; each
\* is made once, in that order, and the prompt of the second holds the JSON
\* text of that result's ai_analysis.
C18_CallsOrderedPromptEmbedsAnalysis ==
    /\ pc = "suggest" =>
          (match_call.made /\ ~match_call.raised /\ ~suggest_call.made
             /\ "error" \notin DOMAIN analysis_result)
    /\ suggest_call.made =>
          /\ match_call.made /\ ~match_call.raised
          /\ "error" \notin DOMAIN analysis_result
          /\ \E i, j \in DOMAIN steps :
                /\ i < j
                /\ steps[i] = "match_call" /\ steps[j] = "suggest_call"
                /\ \A k \in DOMAIN steps \ {i, j} :
                      steps[k] \notin {"match_call", "suggest_call"}
          /\ suggest_prompt.resume_text = resume_text
          /\ suggest_prompt.job_description = job_description
          /\ suggest_prompt.analysis = JsonDumps(analysis_result.ai_analysis)

\* C18 witness: both calls were made and the analysis was the full reply.
C18_Witness ==
    /\ pc = "done"
    /\ suggest_call.made
    /\ match_call.value = ReplyFull
    /\ suggest_prompt.analysis = JsonDumps(ReplyFullValue)

\* C19: calculate_semantic_similarity never raises; without a sentence
\* model, or when encoding or the cosine raises, it returns 0 and
\* analyze_resume returns a result without an error tag whose
\* semantic_similarity is 0.
C19_SimilarityNeverRaises ==
    (match_call.made /\ ~match_call.raised) =>
        /\ ~calculate_semantic_similarity(sem_env).raised
        /\ (~sem_env.loaded \/ sem_env.cosine.raised) =>
              /\ calculate_semantic_similarity(sem_env) = Return(0)
              /\ "error" \notin DOMAIN analysis_result
              /\ analysis_result.semantic_similarity = 0

\* C19 witness: the sentence model is loaded, encoding raised, and the
\* report was shown with similarity 0.
C19_Witness ==
    /\ pc = "done"
    /\ sem_env.loaded /\ sem_env.cosine.raised
    /\ display.status = "shown"
    /\ analysis_result.semantic_similarity = 0

\* C20: the semantic_similarity of every result without an error tag lies
\* in [0,100].
C20_SemanticWithinRange ==
    NonErrorResult =>
        /\ analysis_result.semantic_similarity >= 0
        /\ analysis_result.semantic_similarity <= 10000


\* C21: the keyword_analysis of a result without an error tag does not
\* depend on the model's reply: with the request's two texts (and one
\* tokenizer and set order), every reply of the model, JSON of any content
\* or not JSON, gives this same keyword_analysis.  (Stated where
\* analyze_resume has just returned; the result does not change afterwards.)
C21_KeywordAnalysisIgnoresReply ==
    (pc = "suggest" /\ NonErrorResult) =>
        \E punkt \in BOOLEAN, order \in HashOrders :
            \A llm \in MatchCallOutcomes :
                ~llm.raised =>
                    LET other == analyze_resume(resume_text, job_description,
                                     [llm |-> llm, punkt |-> punkt, sem |-> sem_env,
                                      order |-> order,
                                      now |-> analysis_result.analysis_timestamp]).value
                    IN  /\ "error" \notin DOMAIN other
                        /\ other.keyword_analysis = analysis_result.keyword_analysis

\* C21 witness: a reply that is JSON but no object, and keywords were taken
\* from both texts.
C21_Witness ==
    /\ pc = "suggest"
    /\ NonErrorResult
    /\ match_call.value = ReplyNull
    /\ analysis_result.keyword_analysis.resume_keywords # <<>>
    /\ analysis_result.keyword_analysis.job_keywords # <<>>

\* C22: over the requests of one run of the application the sentence model
\* and the stop-word set are each loaded at most once.
C22_LoadedAtMostOnce ==
    /\ loads.sentence_model <= 1
    /\ loads.stop_words <= 1

(***************************************************************************)
(* Properties of extract_keywords called alone (SpecKw), continued.        *)
(***************************************************************************)
\* Every character of every keyword returned is in chars.
KeywordCharsWithin(chars) ==
    \A i \in DOMAIN kw_out.value :
        \A j \in DOMAIN kw_out.value[i] : kw_out.value[i][j] \in chars

\* C23 as stated: no keyword returned holds an upper-case letter or a
\* character that is not a letter or a digit.
C23_KeywordsLowerAlphanumeric ==
    kw_pc = "done" => KeywordCharsWithin(Range(LowerLetters) \cup Digits)

\* C23 amended: no keyword returned holds an upper-case letter or a
\* character that is not a letter, a digit or an underscore.
C23_KeywordsLowerWordChars ==
    kw_pc = "done" => KeywordCharsWithin(Range(LowerLetters) \cup Digits \cup {"_"})

\* C23 witness: a text with an upper-case letter and a full stop, and a
\* keyword with an underscore is returned.
C23_Witness ==
    /\ kw_pc = "done" /\ kw_arg.isStr
    /\ \E i \in DOMAIN kw_arg.chars : kw_arg.chars[i] \in Range(UpperLetters)
    /\ \E i \in DOMAIN kw_arg.chars : kw_arg.chars[i] = "."
    /\ \E i \in DOMAIN kw_out.value : "_" \in Range(kw_out.value[i])

(***************************************************************************)
(* Properties of a request (Spec), continued.                              *)
(***************************************************************************)
\* How often a step was made in the request.
StepCount(name) == Cardinality({i \in DOMAIN steps : steps[i] = name})

\* C24: in one request the match-analysis call is made at most once and the
\* suggestions call at most once: exactly once each when made, also when
\* the call raised or its reply is not JSON.
C24_EachCallAtMostOnce ==
    /\ StepCount("match_call") = (IF match_call.made THEN 1 ELSE 0)
    /\ StepCount("suggest_call") = (IF suggest_call.made THEN 1 ELSE 0)
    /\ StepCount("new_analyzer") <= 1

\* C24 witness: a match reply that is not JSON and a suggestions call that
\* raised, each call made once.
C24_Witness ==
    /\ pc = "done"
    /\ match_call.made /\ ~match_call.raised /\ JsonLoads(match_call.value).raised
    /\ suggest_call.made /\ suggest_call.raised
    /\ StepCount("match_call") = 1
    /\ StepCount("suggest_call") = 1

\* C25: what analyze_resume returns is either the error-tagged record
\* (error, empty ai_analysis and keyword_analysis, semantic_similarity 0),
\* which it is only when the model call raised, or a record without error
\* whose keyword_analysis holds its five fields; both hold a timestamp.
C25_TwoResultShapes ==
    match_call.made =>
        IF "error" \in DOMAIN analysis_result
        THEN /\ DOMAIN analysis_result =
                    {"error", "ai_analysis", "keyword_analysis", "semantic_similarity",
                     "analysis_timestamp"}
             /\ analysis_result.ai_analysis = EmptyDict
             /\ DOMAIN analysis_result.keyword_analysis = {}
             /\ analysis_result.semantic_similarity = 0
             /\ analysis_result.analysis_timestamp \in Timestamps
             /\ match_call.raised
        ELSE /\ DOMAIN analysis_result =
                    {"ai_analysis", "keyword_analysis", "semantic_similarity",
                     "analysis_timestamp"}
             /\ DOMAIN analysis_result.keyword_analysis = KeywordAnalysisFields
             /\ analysis_result.analysis_timestamp \in Timestamps
             /\ ~match_call.raised

\* C25 witness: the model call raised and the error-tagged record, with its
\* timestamp, was returned.
C25_Witness ==
    /\ match_call.made /\ match_call.raised
    /\ "error" \in DOMAIN analysis_result
    /\ analysis_result.error = "Connection error."
    /\ analysis_result.analysis_timestamp \in Timestamps

====
